---- MODULE Spec2Model ----
(***************************************************************************)
(* Incremental index synchronisation of pkb: main.update_index and the     *)
(* operations around it (create_index / save_index / load_index, the       *)
(* "Update Index" and "Rebuild Index" handlers of app.py).                 *)
(*                                                                         *)
(* The index is modelled by the metadata of the entries of its docstore    *)
(* (file_path, file_hash), in insertion order; the file system by the      *)
(* bytes of each notes file.  An optional value (Python's None, a file     *)
(* that does not exist) is a sequence of length 0 or 1.                    *)
(***************************************************************************)
EXTENDS Integers, Sequences, FiniteSets, TLC

\* ------------------------------------------------------------------ bounds
\* Number of file-system edits the environment may make in one behaviour.
MaxEdits == 1

\* f.read(4096) in get_file_hash.
ChunkSize == 4096

\* The notes files, in the order the directory reader lists them, and the
\* source roots (NOTES_DIRECTORIES) in the order update_index visits them.
PathOrder == <<"a/1.md", "a/2.md", "b/3.md">>
Paths == {PathOrder[k] : k \in 1..Len(PathOrder)}
notes_directories == <<"a", "b">>
DirOf(p) == IF p = "b/3.md" THEN "b" ELSE "a"

\* File contents (byte strings) the environment writes.
Contents == {<<1>>, <<1, 0>>}
None == <<>>
Some(x) == <<x>>
FileStates == {None} \cup {Some(c) : c \in Contents}

VARIABLES
    fs,                   \* path -> None (no such file) or Some(bytes)
    docstore,             \* index.docstore.docs.values(): entries' metadata
    disk,                 \* the index persisted under PERSIST_DIR
    pc,                   \* position inside update_index
    caller,               \* "cli" (main.main) or "app" (Update Index button)
    existing_docs,        \* update_index's existing_docs
    all_documents,        \* update_index's all_documents (their file_path)
    i,                    \* position of the for loop over all_documents
    documents_to_update,  \* update_index's documents_to_update
    unchanged,            \* documents the loop did not queue (the else case)
    events,               \* calls and reports of the current pass, in order
    last,                 \* how the previous pass ended, and its batch
    clean,                \* no file edit and no index replacement since then
    edits                 \* file-system edits so far

vars == <<fs, docstore, disk, pc, caller, existing_docs, all_documents, i,
          documents_to_update, unchanged, events, last, clean, edits>>

\* ----------------------------------------------------------- fingerprinter
RECURSIVE Md5Update(_, _)
\* hash_md5.update(chunk): the digest state absorbs the chunk byte by byte.
Md5Update(h, chunk) ==
    IF chunk = <<>> THEN h
    ELSE Md5Update((h * 3 + Head(chunk) + 1) % 17, Tail(chunk))

RECURSIVE ReadChunks(_, _)
\* for chunk in iter(lambda: f.read(4096), b""): hash_md5.update(chunk)
ReadChunks(h, bytes) ==
    IF bytes = <<>> THEN h
    ELSE LET n == IF Len(bytes) < ChunkSize THEN Len(bytes) ELSE ChunkSize
         IN  ReadChunks(Md5Update(h, SubSeq(bytes, 1, n)),
                        SubSeq(bytes, n + 1, Len(bytes)))

\* get_file_hash of a readable file with these bytes (the hexdigest, an
\* injective rendering of the digest state, is kept as the number).
get_file_hash(bytes) == ReadChunks(1, bytes)

\* --------------------------------------------------------------- documents
\* SimpleDirectoryReader(...).load_data(): one document per file, metadata
\* file_path set, no file_hash.  The roots hold no subdirectories, so the
\* recursive reader of load_documents and the flat one of update_index list
\* the same files.
LiveIn(files, dir) ==
    SelectSeq(PathOrder, LAMBDA p : DirOf(p) = dir /\ files[p] # None)

RECURSIVE LoadAll(_, _)
\* load_documents over every root, in root order.
LoadAll(files, dirs) ==
    IF dirs = <<>> THEN <<>>
    ELSE LiveIn(files, Head(dirs)) \o LoadAll(files, Tail(dirs))

\* create_index(documents): entries carry the documents' metadata, which has
\* no file_hash.
create_index(documents) ==
    [k \in 1..Len(documents) |-> [file_path |-> documents[k], file_hash |-> None]]

Range(s) == {s[k] : k \in 1..Len(s)}
Perms(S) == {s \in [1..Cardinality(S) -> S] : Range(s) = S}
PathsOf(docs) == {docs[k].file_path : k \in 1..Len(docs)}

\* ------------------------------------------------------- reference catalog
RECURSIVE Catalog(_)
\* {doc.metadata["file_path"]: doc.metadata.get("file_hash") for doc in ...}:
\* a dict, so a later entry of the same file_path overwrites an earlier one.
Catalog(entries) ==
    IF entries = <<>> THEN [p \in {} |-> None]
    ELSE LET rest == Catalog(SubSeq(entries, 1, Len(entries) - 1))
             d    == entries[Len(entries)]
         IN  [p \in DOMAIN rest \cup {d.file_path} |->
                 IF p = d.file_path THEN d.file_hash ELSE rest[p]]

\* A variant reading metadata["file_hash"], which raises KeyError on an entry
\* without fingerprint.
ExistingDocsStrict(entries) ==
    [raised |-> \E k \in 1..Len(entries) : entries[k].file_hash = None,
     docs   |-> Catalog(entries)]

\* update_index, lines 104-107.
ExistingDocs(entries) ==
    [raised |-> FALSE, docs |-> Catalog(entries)]

\* ------------------------------------------------------------ sync planner
\* A variant that skips a document whose hash equals that of the document
\* queued just before it.
PlanStepDedup(acc, existing, file_path, new_hash) ==
    IF (file_path \notin DOMAIN existing \/ existing[file_path] # Some(new_hash))
       /\ ~(acc.documents_to_update # <<>>
            /\ acc.documents_to_update[Len(acc.documents_to_update)].file_hash
                   = Some(new_hash))
    THEN [acc EXCEPT !.documents_to_update =
              Append(@, [file_path |-> file_path, file_hash |-> Some(new_hash)])]
    ELSE [acc EXCEPT !.unchanged = @ \cup {file_path}]

\* A variant that forgets documents the catalog does not know.
PlanStepKnownOnly(acc, existing, file_path, new_hash) ==
    IF file_path \in DOMAIN existing /\ existing[file_path] # Some(new_hash)
    THEN [acc EXCEPT !.documents_to_update =
              Append(@, [file_path |-> file_path, file_hash |-> Some(new_hash)])]
    ELSE [acc EXCEPT !.unchanged = @ \cup {file_path}]

\* A variant that queues every live document (a full refresh).
PlanStepAll(acc, existing, file_path, new_hash) ==
    [acc EXCEPT !.documents_to_update =
         Append(@, [file_path |-> file_path, file_hash |-> Some(new_hash)])]

\* A variant that queues the document without recording its new hash.
PlanStepNoHash(acc, existing, file_path, new_hash) ==
    IF file_path \notin DOMAIN existing \/ existing[file_path] # Some(new_hash)
    THEN [acc EXCEPT !.documents_to_update =
              Append(@, [file_path |-> file_path, file_hash |-> None])]
    ELSE [acc EXCEPT !.unchanged = @ \cup {file_path}]

\* The body of the for loop, lines 117-122, for one document whose hash was
\* computed: queue it with its new hash, or leave it (the implicit else).
PlanStep(acc, existing, file_path, new_hash) ==
    IF file_path \notin DOMAIN existing \/ existing[file_path] # Some(new_hash)
    THEN [acc EXCEPT !.documents_to_update =
              Append(@, [file_path |-> file_path, file_hash |-> Some(new_hash)])]
    ELSE [acc EXCEPT !.unchanged = @ \cup {file_path}]

EmptyPlan == [documents_to_update |-> <<>>, unchanged |-> {}]

RECURSIVE PlanAll(_, _, _)
\* The whole for loop, lines 115-122, over documents that are all readable.
PlanAll(docs, existing, files) ==
    IF docs = <<>> THEN EmptyPlan
    ELSE LET n == Len(docs)
         IN  PlanStep(PlanAll(SubSeq(docs, 1, n - 1), existing, files),
                      existing, docs[n], get_file_hash(files[docs[n]][1]))

\* ------------------------------------------------------------ index engine
\* index.refresh_ref_docs(batch): entries sharing a queued identity are
\* replaced, entries of new identities are inserted.
RefreshRefDocs(entries, batch) ==
    SelectSeq(entries, LAMBDA e : e.file_path \notin PathsOf(batch)) \o batch

\* A variant that inserts the batch beside what the index holds.
ApplyUpdateInsert(entries, batch) == entries \o batch

\* A variant that builds a new index from the batch alone.
ApplyUpdateRebuild(entries, batch) == batch

\* update_index, line 129: the batch is documents_to_update, nothing else.
ApplyUpdate(entries, batch) == RefreshRefDocs(entries, batch)

\* A variant without the early return of lines 124-126.
AfterPlanAlways(batch) == "refresh"

\* update_index, lines 124-126: nothing queued means an early return.
AfterPlan(batch) == IF batch = <<>> THEN "returned" ELSE "refresh"

\* ------------------------------------------------------------------- state
NoPass == [existing_docs |-> Catalog(<<>>), all_documents |-> <<>>, i |-> 1,
           documents_to_update |-> <<>>, unchanged |-> {}]

\* The index exists before any pass: main.main / initialize_index built it from
\* the files then present and saved it.
Init ==
    /\ fs \in [Paths -> FileStates]
    /\ docstore = create_index(LoadAll(fs, notes_directories))
    /\ disk = docstore
    /\ pc = "idle"
    /\ caller = "none"
    /\ existing_docs = NoPass.existing_docs
    /\ all_documents = NoPass.all_documents
    /\ i = NoPass.i
    /\ documents_to_update = NoPass.documents_to_update
    /\ unchanged = NoPass.unchanged
    /\ events = <<>>
    /\ last = "none"
    /\ clean = FALSE
    /\ edits = 0

passVars == <<existing_docs, all_documents, i, documents_to_update, unchanged>>

\* An exception leaves update_index (and its caller): nothing after the raising
\* statement runs.
Raise(outcome) ==
    /\ pc' = "raised"
    /\ last' = outcome
    /\ clean' = TRUE

\* ------------------------------------------------------------- environment
\* A notes file is written, created or deleted between two passes.
EditFile ==
    /\ pc = "idle"
    /\ edits < MaxEdits
    /\ \E p \in Paths, f \in FileStates :
          /\ f # fs[p]
          /\ fs' = [fs EXCEPT ![p] = f]
    /\ edits' = edits + 1
    /\ clean' = FALSE
    /\ UNCHANGED <<docstore, disk, pc, caller, passVars, events, last>>

\* load_index: a new index object read from PERSIST_DIR (a new process, main.py
\* lines 182-184).
LoadIndex ==
    /\ pc = "idle"
    /\ docstore' = disk
    /\ clean' = FALSE
    /\ UNCHANGED <<fs, disk, pc, caller, passVars, events, last, edits>>

\* "Rebuild Index": create_index over every document, then save_index, which
\* may fail.
RebuildIndex ==
    /\ pc = "idle"
    /\ docstore' = create_index(LoadAll(fs, notes_directories))
    /\ \E saved \in BOOLEAN : disk' = IF saved THEN docstore' ELSE disk
    /\ clean' = FALSE
    /\ UNCHANGED <<fs, pc, caller, passVars, events, last, edits>>

\* ------------------------------------------------------------ update_index
\* Lines 101-112: the catalog is built and every root is read, each root's
\* documents in some order.
BeginUpdate ==
    /\ pc = "idle"
    /\ \E c \in {"cli", "app"} : caller' = c
    /\ LET cat == ExistingDocs(docstore)
       IN  IF cat.raised
           THEN /\ Raise("raised_catalog")
                /\ UNCHANGED passVars
           ELSE /\ existing_docs' = cat.docs
                /\ \E oa \in Perms(Range(LiveIn(fs, notes_directories[1]))),
                      ob \in Perms(Range(LiveIn(fs, notes_directories[2]))) :
                      all_documents' = oa \o ob
                /\ pc' = "plan"
                /\ UNCHANGED <<i, documents_to_update, unchanged, last, clean>>
    /\ UNCHANGED <<fs, docstore, disk, events, edits>>

\* Line 112 raises: a root cannot be scanned.
SourceUnavailable ==
    /\ pc = "idle"
    /\ \E c \in {"cli", "app"} : caller' = c
    /\ existing_docs' = ExistingDocs(docstore).docs
    /\ Raise("raised_source")
    /\ UNCHANGED <<fs, docstore, disk, all_documents, i, documents_to_update,
                   unchanged, events, edits>>

\* Lines 116-122 for document i, whose file is read to the end.
PlanDoc ==
    /\ pc = "plan"
    /\ i <= Len(all_documents)
    /\ LET file_path == all_documents[i]
           new_hash  == get_file_hash(fs[file_path][1])
           acc == PlanStep([documents_to_update |-> documents_to_update,
                            unchanged |-> unchanged],
                           existing_docs, file_path, new_hash)
       IN  /\ documents_to_update' = acc.documents_to_update
           /\ unchanged' = acc.unchanged
    /\ i' = i + 1
    /\ UNCHANGED <<fs, docstore, disk, pc, caller, existing_docs, all_documents,
                   events, last, clean, edits>>

\* Line 118 raises: open or read of document i fails.  i stays on the
\* document that failed.
UnreadableSource ==
    /\ pc = "plan"
    /\ i <= Len(all_documents)
    /\ Raise("raised_read")
    /\ UNCHANGED <<fs, docstore, disk, caller, passVars, events, edits>>

\* Lines 124-126: the loop is over.
Decide ==
    /\ pc = "plan"
    /\ i > Len(all_documents)
    /\ pc' = AfterPlan(documents_to_update)
    /\ events' = IF pc' = "returned" THEN Append(events, "no_update") ELSE events
    /\ UNCHANGED <<fs, docstore, disk, caller, passVars, last, clean, edits>>

\* Line 129: the index engine applies the batch.
Refresh ==
    /\ pc = "refresh"
    /\ docstore' = ApplyUpdate(docstore, documents_to_update)
    /\ events' = Append(events, "refresh")
    /\ pc' = "save"
    /\ UNCHANGED <<fs, disk, caller, passVars, last, clean, edits>>

\* Line 129 raises (the embedding of some document fails): the documents
\* before it are already in the index.
RefreshFails ==
    /\ pc = "refresh"
    /\ \E k \in 0..(Len(documents_to_update) - 1) :
          docstore' = ApplyUpdate(docstore, SubSeq(documents_to_update, 1, k))
    /\ Raise("raised_refresh")
    /\ UNCHANGED <<fs, disk, caller, passVars, events, edits>>

\* Lines 131-134: save_index persists the index, then the update is logged
\* as completed.
Save ==
    /\ pc = "save"
    /\ disk' = docstore
    /\ events' = events \o <<"save", "completed">>
    /\ pc' = "returned"
    /\ UNCHANGED <<fs, docstore, caller, passVars, last, clean, edits>>

\* Line 131 raises: persist fails, nothing is logged.
SaveFails ==
    /\ pc = "save"
    /\ events' = Append(events, "save")
    /\ Raise("raised_save")
    /\ UNCHANGED <<fs, docstore, disk, caller, passVars, edits>>

\* update_index returned.  main.main goes on to the query; the "Update Index"
\* handler reports success, clears the cache and loads the index from
\* PERSIST_DIR again (app.py lines 41-44).
ReturnToCaller ==
    /\ pc = "returned"
    /\ pc' = "done"
    /\ last' = IF "completed" \in Range(events) THEN "completed" ELSE "no_update"
    /\ IF caller = "app"
       THEN /\ events' = Append(events, "st_success")
            /\ docstore' = disk
            /\ clean' = FALSE
       ELSE /\ clean' = TRUE
            /\ UNCHANGED <<events, docstore>>
    /\ UNCHANGED <<fs, disk, caller, passVars, edits>>

\* The locals of the pass are gone once it has returned or raised.
EndPass ==
    /\ pc \in {"done", "raised"}
    /\ pc' = "idle"
    /\ caller' = "none"
    /\ existing_docs' = NoPass.existing_docs
    /\ all_documents' = NoPass.all_documents
    /\ i' = NoPass.i
    /\ documents_to_update' = NoPass.documents_to_update
    /\ unchanged' = NoPass.unchanged
    /\ events' = <<>>
    /\ UNCHANGED <<fs, docstore, disk, last, clean, edits>>

Next ==
    \/ EditFile
    \/ LoadIndex
    \/ RebuildIndex
    \/ BeginUpdate
    \/ SourceUnavailable
    \/ PlanDoc
    \/ UnreadableSource
    \/ Decide
    \/ Refresh
    \/ RefreshFails
    \/ Save
    \/ SaveFails
    \/ ReturnToCaller
    \/ EndPass

Spec == Init /\ [][Next]_vars

\* ------------------------------------------------------------------ claims
\* The for loop of update_index is over and line 124 is next.
AtDecision == pc = "plan" /\ i > Len(all_documents)

\* The documents the loop has been through so far.
Processed == {all_documents[k] : k \in 1..(i - 1)} \cap Range(all_documents)

Queued == PathsOf(documents_to_update)

FreshHash(p) == Some(get_file_hash(fs[p][1]))

EntriesOf(entries, p) == {j \in 1..Len(entries) : entries[j].file_path = p}

\* C1: when update_index ran to completion and runs again on the same index
\* object with no file changed, added or removed in between, the second run
\* queues nothing.
C1_Idempotent ==
    (AtDecision /\ clean /\ last \in {"completed", "no_update"})
        => documents_to_update = <<>>

C1_Witness ==
    /\ AtDecision
    /\ clean
    /\ last = "completed"
    /\ Len(all_documents) >= 2

\* C2: the batch handed to refresh_ref_docs never holds a live document whose
\* freshly computed fingerprint equals the one the catalog of this pass
\* records for its file_path.
C2_Minimal ==
    \A k \in 1..Len(documents_to_update) :
        LET p == documents_to_update[k].file_path
        IN  ~(p \in DOMAIN existing_docs /\ existing_docs[p] = FreshHash(p))

C2_Witness ==
    /\ pc = "refresh"
    /\ unchanged # {}
    /\ documents_to_update # <<>>

\* C3: every live document the loop has been through is in exactly one of
\* unchanged / to_upsert, and it is in to_upsert iff the catalog lacks its
\* file_path or records another fingerprint.
C3_Complete ==
    \A p \in Processed :
        /\ (p \in Queued) # (p \in unchanged)
        /\ (p \in Queued) <=>
               (p \notin DOMAIN existing_docs \/ existing_docs[p] # FreshHash(p))

C3_Witness ==
    /\ AtDecision
    /\ \E p \in Queued : p \notin DOMAIN existing_docs
    /\ \E p \in Queued : p \in DOMAIN existing_docs
    /\ unchanged # {}

\* C4: save_index is invoked only right after the refresh of a non-empty
\* batch, and a pass with a non-empty batch reports completion or success
\* only after refresh and then save_index were invoked.
C4_Order ==
    /\ \A k \in 1..Len(events) :
          events[k] = "save" =>
              /\ k > 1
              /\ events[k - 1] = "refresh"
              /\ documents_to_update # <<>>
    /\ \A k \in 1..Len(events) :
          (events[k] \in {"completed", "st_success"} /\ documents_to_update # <<>>)
              => \E r, v \in 1..(k - 1) :
                    r < v /\ events[r] = "refresh" /\ events[v] = "save"
    /\ (pc \in {"returned", "done"} /\ documents_to_update # <<>>)
          => "completed" \in Range(events)

C4_Witness == events = <<"refresh", "save", "completed", "st_success">>

\* C5: when reading one live document fails, every other live document is
\* still classified and the queued ones are upserted.
C5_Isolated ==
    (pc = "raised" /\ last = "raised_read") =>
        /\ \A k \in 1..Len(all_documents) :
              k # i => all_documents[k] \in Queued \cup unchanged
        /\ \A k \in 1..Len(documents_to_update) :
              documents_to_update[k] \in Range(docstore)

\* C6: after a pass whose refresh succeeded and whose save_index failed, the
\* next pass on the same index object, with no file changed, queues nothing
\* and invokes save_index again.
C6_Resave ==
    (pc = "returned" /\ last = "raised_save" /\ clean) =>
        /\ documents_to_update = <<>>
        /\ "save" \in Range(events)

\* C7: building the catalog never raises, and a live document whose index
\* entry has a file_path but no file_hash is queued whatever its content.
C7_MissingHash ==
    /\ last # "raised_catalog"
    /\ \A p \in Processed :
          (p \in DOMAIN existing_docs /\ existing_docs[p] = None) => p \in Queued

C7_Witness ==
    /\ AtDecision
    /\ \E p \in Processed : p \in DOMAIN existing_docs /\ existing_docs[p] = None
    /\ \E p \in Processed : p \in DOMAIN existing_docs /\ existing_docs[p] # None

\* C8: the index never holds two entries of one file_path, and after a pass
\* that completed, the catalog derived from the index maps every upserted
\* document to its new fingerprint.
C8_SingleEntry ==
    /\ \A p \in Paths : Cardinality(EntriesOf(docstore, p)) <= 1
    /\ (pc = "returned" /\ "completed" \in Range(events)) =>
          \A p \in Queued :
              /\ p \in DOMAIN Catalog(docstore)
              /\ Catalog(docstore)[p] = FreshHash(p)

C8_Witness ==
    /\ pc = "returned"
    /\ "completed" \in Range(events)
    /\ \E p \in Queued :
          /\ p \in DOMAIN existing_docs
          /\ existing_docs[p] \notin {None, FreshHash(p)}

\* C9: update_index queues live documents only, and an identity the catalog
\* holds and the live set lacks keeps its index entry and its recorded
\* fingerprint through the pass.
C9_NoDeletion ==
    /\ Queued \subseteq Range(all_documents)
    /\ pc \in {"plan", "refresh", "save", "returned", "raised"} =>
          \A p \in (DOMAIN existing_docs) \ Range(all_documents) :
              /\ Cardinality(EntriesOf(docstore, p)) = 1
              /\ Catalog(docstore)[p] = existing_docs[p]

C9_Witness ==
    /\ pc = "returned"
    /\ "refresh" \in Range(events)
    /\ \E p \in (DOMAIN existing_docs) \ Range(all_documents) :
          existing_docs[p] # None

\* C10: for the catalog and the live documents of a pass, the loop run over
\* any permutation of the documents yields the same unchanged set and the
\* same to_upsert set.
C10_OrderIndependent ==
    AtDecision =>
        \A s \in Perms(Range(all_documents)) :
            LET plan == PlanAll(s, existing_docs, fs)
            IN  /\ PathsOf(plan.documents_to_update) = Queued
                /\ plan.unchanged = unchanged

C10_Witness ==
    /\ AtDecision
    /\ Len(all_documents) = 3
    /\ all_documents[1] = "a/2.md"
    /\ Cardinality(Queued) = 2
    /\ unchanged # {}

====
